---- MODULE Spec2Model ----
(***************************************************************************)
(* Stocks AI (src/app.py): a Streamlit page whose script main() is re-run  *)
(* once per user interaction.  The session holds the last fetched table    *)
(* and the last chosen symbol; a run may fetch daily bars from the quotes  *)
(* provider, build a two-row chart, and forward a question to a            *)
(* text-generation model.                                                  *)
(*                                                                         *)
(* Strings that the code tests for truth, upper-cases or scans are         *)
(* sequences of one-character strings; Python's None / an absent value is  *)
(* the empty sequence and a present value v is <<v>>.                      *)
(***************************************************************************)
EXTENDS Integers, Sequences, FiniteSets, TLC

VARIABLES
    data,             \* st.session_state.data: None or Some(table)
    symbol,           \* st.session_state.symbol
    selected_symbol,  \* value of the "Choose a stock symbol" selectbox
    custom_symbol,    \* value of the "Enter custom stock symbol" text input
    prompt,           \* value of the "Ask AI about the stock data" text area
    fetch_button,     \* st.button("Fetch Data") in the last run
    insights_button,  \* st.button("Get AI Insights") in the last run
    response,         \* what the quotes provider answered in the last run
    fetch_result,     \* what fetch_stocks_data returned in the last run
    gets,             \* symbols of the GETs issued in the last run
    raised,           \* exception that ended the last run, or "none"
    shown,            \* elements the last run displayed
    fig,              \* the figure create_stock_chart built in the last run
    ai_call,          \* arguments of get_ai_insights in the last run
    ai_outcome,       \* what the text-generation call did in the last run
    ai_response,      \* what get_ai_insights returned in the last run
    data_symbol       \* history: symbol passed to the fetch that set data

vars == <<data, symbol, selected_symbol, custom_symbol, prompt, fetch_button,
          insights_button, response, fetch_result, gets, raised, shown, fig,
          ai_call, ai_outcome, ai_response, data_symbol>>

----------------------------------------------------------------------------
(* Bounds of the model *)

\* longest "results" array the quotes provider returns
MaxRows == 2

----------------------------------------------------------------------------
(* Python values *)

None == <<>>
Some(v) == <<v>>

\* bool(s) of a str: the empty string is false, every other string is true
Truthy(s) == Len(s) > 0

LowerCase == <<"a", "b", "c", "d", "e", "f", "g", "h", "i", "j", "k", "l", "m",
               "n", "o", "p", "q", "r", "s", "t", "u", "v", "w", "x", "y", "z">>
UpperCase == <<"A", "B", "C", "D", "E", "F", "G", "H", "I", "J", "K", "L", "M",
               "N", "O", "P", "Q", "R", "S", "T", "U", "V", "W", "X", "Y", "Z">>

\* str.upper(), character by character
upper(s) ==
    [i \in 1..Len(s) |->
        IF \E k \in 1..Len(LowerCase) : LowerCase[k] = s[i]
        THEN UpperCase[CHOOSE k \in 1..Len(LowerCase) : LowerCase[k] = s[i]]
        ELSE s[i]]

Other == <<"O", "t", "h", "e", "r">>

popular_symbols ==
    << <<"A", "A", "P", "L">>, <<"G", "O", "O", "G", "L">>,
       <<"M", "S", "F", "T">>, <<"A", "M", "Z", "N">>, <<"F", "B">>,
       <<"T", "S", "L", "A">>, <<"N", "V", "D", "A">>, <<"J", "P", "M">>,
       <<"J", "N", "J">>, <<"V">>, Other >>

\* list.index(x) for an x in the list (1-based here)
IndexOf(list, x) == CHOOSE i \in 1..Len(list) : list[i] = x

\* the index expression of the selectbox: the option shown before any choice
selectbox_index(sym) ==
    IF \E i \in 1..Len(popular_symbols) : popular_symbols[i] = sym
    THEN IndexOf(popular_symbols, sym)
    ELSE Len(popular_symbols)

----------------------------------------------------------------------------
(* pandas *)

\* a missing cell, and a missing timestamp
NaN == -1
NaT == -2

\* nanoseconds (the resolution of a pandas timestamp) per millisecond
NsPerMs == 1000000

\* pd.DataFrame(): no columns, no rows
EmptyFrame == [columns |-> {}, rows |-> <<>>]

\* pd.DataFrame(list of dicts): the columns are the keys of all the dicts,
\* one row per dict in the list's order, NaN where a dict lacks a key
DataFrame(records) ==
    LET cols == UNION {DOMAIN records[i] : i \in 1..Len(records)}
    IN  [columns |-> cols,
         rows |-> [i \in 1..Len(records) |->
                     [c \in cols |-> IF c \in DOMAIN records[i]
                                     THEN records[i][c] ELSE NaN]]]

\* DataFrame.empty: some axis has length 0
IsEmpty(df) == df.columns = {} \/ Len(df.rows) = 0

\* pd.to_datetime(x, unit='ms') of one cell: x milliseconds after the epoch
to_datetime_ms(x) == IF x = NaN THEN NaT ELSE x * NsPerMs

\* df[name] = values: a column added (or replaced), one value per row
WithColumn(df, name, values) ==
    LET cols == df.columns \cup {name}
    IN  [columns |-> cols,
         rows |-> [i \in 1..Len(df.rows) |->
                     [c \in cols |-> IF c = name THEN values[i]
                                     ELSE df.rows[i][c]]]]

\* df.rename(columns=names): the named columns change name, the rest stay
rename(df, names) ==
    LET New(c) == IF c \in DOMAIN names THEN names[c] ELSE c
        cols == {New(c) : c \in df.columns}
        Old(n) == CHOOSE c \in df.columns : New(c) = n
    IN  [columns |-> cols,
         rows |-> [i \in 1..Len(df.rows) |->
                     [n \in cols |-> df.rows[i][Old(n)]]]]

\* df[[...]]: exactly the listed columns; KeyError when one is missing
HasColumns(df, cols) == cols \subseteq df.columns
select(df, cols) ==
    [columns |-> cols,
     rows |-> [i \in 1..Len(df.rows) |-> [c \in cols |-> df.rows[i][c]]]]

\* df[c] as a sequence, one value per row
Column(df, c) == [i \in 1..Len(df.rows) |-> df.rows[i][c]]

\* df.tail(): the last five rows
TailRows == 5
tail(df) ==
    LET n == Len(df.rows)
        k == IF n < TailRows THEN n ELSE TailRows
    IN  [columns |-> df.columns,
         rows |-> [i \in 1..k |-> df.rows[n - k + i]]]

----------------------------------------------------------------------------
(* The quotes provider (Polygon aggregates) *)

\* the answers of the provider: the HTTP call fails, or a JSON object comes
\* back, with or without a "results" array of bars
Bar1 == [t |-> 1, o |-> 10, h |-> 12, l |-> 9, c |-> 11, v |-> 1000]
Bar2 == [t |-> 2, o |-> 11, h |-> 13, l |-> 10, c |-> 12, v |-> 2000,
         vw |-> 12, n |-> 7]
BarNoVolume == [t |-> 3, o |-> 12, h |-> 14, l |-> 11, c |-> 13]
Bars == {Bar1, Bar2, BarNoVolume}

ResultsArrays == UNION {[1..n -> Bars] : n \in 0..MaxRows}

JsonBodies ==
    {[status |-> "ERROR", error |-> "Unknown API Key"],
     [status |-> "OK", resultsCount |-> 0]}
    \cup {[status |-> "OK", results |-> rs] : rs \in ResultsArrays}

NoBody == [status |-> "none"]
Responses ==
    {[error |-> "ConnectionError", body |-> NoBody]}
    \cup {[error |-> "none", body |-> b] : b \in JsonBodies}

\* a variant with High and Low exchanged
ColumnNames_Swapped ==
    [o |-> "Open", h |-> "Low", l |-> "High", c |-> "Close", v |-> "Volume"]
ColumnNames ==
    [o |-> "Open", h |-> "High", l |-> "Low", c |-> "Close", v |-> "Volume"]
Columns == {"timestamp", "Open", "High", "Low", "Close", "Volume"}

\* a variant that sends the request again
requests_get_Retry(sym) == <<sym, sym>>

\* requests.get(url): the GETs one call of fetch_stocks_data sends
requests_get(sym) == <<sym>>

\* the rest of fetch_stocks_data once "results" is there, by the statement
\* that ends it: "raised" names the exception that leaves the function
NormalizeResults(results) ==
    LET df0 == DataFrame(results)
    IN  IF ~HasColumns(df0, {"t"})
        THEN [raised |-> "KeyError", value |-> None, api_error |-> FALSE]
        ELSE
          LET stamps == [i \in 1..Len(df0.rows) |->
                           to_datetime_ms(df0.rows[i]["t"])]
              df1 == WithColumn(df0, "timestamp", stamps)
              df2 == rename(df1, ColumnNames)
          IN  IF ~HasColumns(df2, Columns)
              THEN [raised |-> "KeyError", value |-> None, api_error |-> FALSE]
              ELSE [raised |-> "none", value |-> Some(select(df2, Columns)),
                    api_error |-> FALSE]

\* a variant without the test for "results": data['results'] raises
Normalize_Unchecked(body) ==
    IF "results" \notin DOMAIN body
    THEN [raised |-> "KeyError", value |-> None, api_error |-> FALSE]
    ELSE NormalizeResults(body.results)

\* fetch_stocks_data after response.json(): an error shown and an empty
\* table when "results" is absent
Normalize(body) ==
    IF "results" \notin DOMAIN body
    THEN [raised |-> "none", value |-> Some(EmptyFrame), api_error |-> TRUE]
    ELSE NormalizeResults(body.results)

fetch_stocks_data(sym, resp) ==
    LET sent == requests_get(sym)
    IN  IF resp.error # "none"
        THEN [raised |-> resp.error, value |-> None, api_error |-> FALSE,
              gets |-> sent]
        ELSE LET r == Normalize(resp.body)
             IN  [raised |-> r.raised, value |-> r.value,
                  api_error |-> r.api_error, gets |-> sent]

----------------------------------------------------------------------------
(* The chart *)

\* make_subplots(rows=2, cols=1, shared_xaxes=True, row_heights=[0.7, 0.3])
\* with the two traces added and the layout updated; heights in percent
Candlestick(df) ==
    [type |-> "candlestick", name |-> "Price", x |-> Column(df, "timestamp"),
     open |-> Column(df, "Open"), high |-> Column(df, "High"),
     low |-> Column(df, "Low"), close |-> Column(df, "Close")]
Bar(df) ==
    [type |-> "bar", name |-> "Volume", x |-> Column(df, "timestamp"),
     y |-> Column(df, "Volume")]

\* a variant that draws every trace in the first row
add_trace_Row1(traces, trace, row, col) ==
    Append(traces, [trace |-> trace, row |-> 1, col |-> col])

\* fig.add_trace(trace, row, col): the trace with the subplot it is drawn in
add_trace(traces, trace, row, col) ==
    Append(traces, [trace |-> trace, row |-> row, col |-> col])

create_stock_chart(df) ==
    LET t1 == add_trace(<<>>, Candlestick(df), 1, 1)
        t2 == add_trace(t1, Bar(df), 2, 1)
    IN  [rows |-> 2, cols |-> 1, shared_xaxes |-> TRUE,
         row_heights |-> <<70, 30>>,
         traces |-> t2,
         xaxis_rangeslider_visible |-> FALSE,
         title |-> "Stock Data (Last 30 Days)"]

----------------------------------------------------------------------------
(* The text-generation provider *)

\* what model.generate_content does: it raises, or it returns a response
\* whose text is empty or not.  A text is a sequence of pieces.
GenOutcomes ==
    {[error |-> "429 Resource has been exhausted", text |-> <<>>],
     [error |-> "none", text |-> <<>>],
     [error |-> "none", text |-> <<"The stock closed higher.">>]}

NoResponseMessage ==
    <<"The AI model didn't provide a response. Please try asking a different question.">>
ErrorMessage(e) == <<"An error occurred while getting AI insights: ", e>>

\* df.describe(), as far as integers go: count, min and max of each numeric
\* column over its non-missing cells
NumericColumns(df) == df.columns \ {"timestamp"}
describe(df) ==
    [c \in NumericColumns(df) |->
        LET cells == {i \in 1..Len(df.rows) : df.rows[i][c] # NaN}
        IN  [count |-> Cardinality(cells),
             min |-> IF cells = {} THEN NaN
                     ELSE CHOOSE m \in {df.rows[i][c] : i \in cells} :
                            \A i \in cells : m <= df.rows[i][c],
             max |-> IF cells = {} THEN NaN
                     ELSE CHOOSE m \in {df.rows[i][c] : i \in cells} :
                            \A i \in cells : m >= df.rows[i][c]]]

\* the f-string of get_ai_insights; df[['timestamp', 'Close']] needs both
\* columns
CanBuildContext(df) == HasColumns(df, {"timestamp", "Close"})
Context(df, sym, question) ==
    [stock |-> sym, summary |-> describe(df),
     recent |-> tail(select(df, {"timestamp", "Close"})),
     question |-> question]

\* a variant without the test of response.text
get_ai_insights_NoEmptyCheck(df, sym, question, gen) ==
    IF ~CanBuildContext(df)
    THEN [text |-> ErrorMessage("KeyError"), sent |-> <<>>]
    ELSE IF gen.error # "none"
         THEN [text |-> ErrorMessage(gen.error),
               sent |-> <<Context(df, sym, question)>>]
         ELSE [text |-> gen.text, sent |-> <<Context(df, sym, question)>>]

\* get_ai_insights: everything raised inside the try is caught and turned
\* into the returned text.  sent: the prompts submitted to the provider.
get_ai_insights(df, sym, question, gen) ==
    IF ~CanBuildContext(df)
    THEN [text |-> ErrorMessage("KeyError"), sent |-> <<>>]
    ELSE LET context == Context(df, sym, question)
         IN  IF gen.error # "none"
             THEN [text |-> ErrorMessage(gen.error), sent |-> <<context>>]
             ELSE IF Truthy(gen.text)
             THEN [text |-> gen.text, sent |-> <<context>>]
             ELSE [text |-> NoResponseMessage, sent |-> <<context>>]

----------------------------------------------------------------------------
(* main(): one run of the script *)

\* what the user can type
Choices == {<<"A", "A", "P", "L">>, <<"V">>, Other}
CustomInputs == {<<>>, <<"i", "b", "m">>, <<"v">>}
Questions == {<<>>, <<"?">>, <<" ", " ">>}

\* the symbol the session holds after the symbol widgets are read
choose_symbol(sel, custom, sym) ==
    IF sel = Other
    THEN IF Truthy(custom) THEN upper(custom) ELSE sym
    ELSE sel

\* the guard of the fetch
ShouldFetch(fb, sym) == fb /\ Truthy(sym)

\* the guard of the chart branch, and of the fallback branch
HasRows(d) == d # None /\ ~IsEmpty(d[1])
HasTable(d) == d # None

\* the guard of the call of get_ai_insights
QuestionGiven(question) == Truthy(question)

\* the display part of main for the session data d: the chart, the table and
\* the question box, or the fallback message, or nothing
Display(d, sym, typed, ib, gen) ==
    IF HasRows(d)
    THEN LET ask == ib /\ QuestionGiven(typed)
             ai == get_ai_insights(d[1], sym, typed, gen)
         IN  [shown |-> {"chart", "table", "question_box", "insights_button"}
                        \cup (IF ask THEN {"ai_insights"} ELSE {})
                        \cup (IF ib /\ ~ask THEN {"warning"} ELSE {}),
              fig |-> Some(create_stock_chart(d[1])),
              prompt |-> typed,
              ai_call |-> IF ask
                          THEN Some([df |-> d[1], symbol |-> sym,
                                     prompt |-> typed])
                          ELSE None,
              ai_outcome |-> IF ask /\ ai.sent # <<>> THEN Some(gen) ELSE None,
              ai_response |-> IF ask THEN Some(ai.text) ELSE None]
    ELSE [shown |-> IF HasTable(d) THEN {"no_data_message"} ELSE {},
          fig |-> None, prompt |-> <<>>, ai_call |-> None,
          ai_outcome |-> None, ai_response |-> None]

\* a run that an exception leaves at the fetch: nothing below is executed
Aborted ==
    [shown |-> {"exception"}, fig |-> None, prompt |-> <<>>,
     ai_call |-> None, ai_outcome |-> None, ai_response |-> None]

\* the fetch when main does not call it
NotFetched ==
    [raised |-> "none", value |-> None, api_error |-> FALSE, gets |-> <<>>]

\* One run of main with the widget values sel, custom, typed, the two
\* buttons fb, ib, and the answers resp, gen the providers give if called.
Run(sel, custom, typed, fb, ib, resp, gen) ==
    \E sym \in {choose_symbol(sel, custom, symbol)} :
    \E fetching \in {ShouldFetch(fb, sym)} :
    \E fr \in {IF fetching THEN fetch_stocks_data(sym, resp) ELSE NotFetched} :
    \E failed \in {fr.raised # "none"} :
    \E d \in {IF fetching /\ ~failed THEN fr.value ELSE data} :
    \E out \in {IF failed THEN Aborted ELSE Display(d, sym, typed, ib, gen)} :
        /\ selected_symbol' = sel
        /\ custom_symbol' = custom
        /\ symbol' = sym
        /\ fetch_button' = fb
        /\ insights_button' = ib
        /\ response' = IF fetching THEN Some(resp) ELSE None
        /\ fetch_result' = fr.value
        /\ gets' = fr.gets
        /\ raised' = fr.raised
        /\ data' = d
        /\ data_symbol' = IF fetching /\ ~failed THEN Some(sym) ELSE data_symbol
        /\ shown' = out.shown \cup (IF fr.api_error THEN {"api_error"} ELSE {})
        /\ fig' = out.fig
        /\ prompt' = out.prompt
        /\ ai_call' = out.ai_call
        /\ ai_outcome' = out.ai_outcome
        /\ ai_response' = out.ai_response

AnyResponse == CHOOSE r \in Responses : TRUE
AnyGen == CHOOSE g \in GenOutcomes : TRUE

----------------------------------------------------------------------------
(* The user's interactions; each one re-runs the script *)

\* the page is loaded: the script has run once, no button pressed
Init ==
    /\ data = None
    /\ symbol = <<>>
    /\ selected_symbol = popular_symbols[selectbox_index(<<>>)]
    /\ custom_symbol = <<>>
    /\ prompt = <<>>
    /\ fetch_button = FALSE
    /\ insights_button = FALSE
    /\ response = None
    /\ fetch_result = None
    /\ gets = <<>>
    /\ raised = "none"
    /\ shown = {}
    /\ fig = None
    /\ ai_call = None
    /\ ai_outcome = None
    /\ ai_response = None
    /\ data_symbol = None

\* A widget returns what the user last entered for as long as the runs draw
\* it; a widget that a run does not draw starts again from its default.

\* another option of the selectbox is chosen; the custom symbol input is
\* new (empty) or not drawn
SelectSymbol ==
    \E sel \in Choices :
        /\ sel # selected_symbol
        /\ Run(sel, <<>>, prompt, FALSE, FALSE, AnyResponse, AnyGen)

\* a custom symbol is typed, the selectbox being at "Other"
EnterCustomSymbol ==
    \E custom \in CustomInputs :
        /\ selected_symbol = Other
        /\ custom # custom_symbol
        /\ Run(selected_symbol, custom, prompt, FALSE, FALSE, AnyResponse,
               AnyGen)

\* the Fetch Data button is pressed; every run draws it, also a run that
\* an exception ends later
PressFetch ==
    \E resp \in Responses :
        /\ fetch_button \in BOOLEAN
        /\ Run(selected_symbol, custom_symbol, prompt, TRUE, FALSE, resp,
               AnyGen)

\* a question is typed into the question box
TypeQuestion ==
    \E question \in Questions :
        /\ "question_box" \in shown
        /\ question # prompt
        /\ Run(selected_symbol, custom_symbol, question, FALSE, FALSE,
               AnyResponse, AnyGen)

\* the Get AI Insights button is pressed
PressInsights ==
    \E gen \in GenOutcomes :
        /\ "insights_button" \in shown
        /\ Run(selected_symbol, custom_symbol, prompt, FALSE, TRUE,
               AnyResponse, gen)

Next ==
    \/ SelectSymbol
    \/ EnterCustomSymbol
    \/ PressFetch
    \/ TypeQuestion
    \/ PressInsights

Spec == Init /\ [][Next]_vars

----------------------------------------------------------------------------
(* Properties *)

JsonAnswered == response # None /\ response[1].error = "none"
ResultsAbsent == JsonAnswered /\ "results" \notin DOMAIN response[1].body
ResultsPresent == JsonAnswered /\ "results" \in DOMAIN response[1].body
WellFormed(results) ==
    /\ Len(results) > 0
    /\ \A i \in 1..Len(results) :
         {"t", "o", "h", "l", "c", "v"} \subseteq DOMAIN results[i]

\* C1: when the quotes provider's JSON answer has no "results" field,
\* fetch_stocks_data returns a table with zero rows without raising, and main
\* shows the no-data message and no chart, table or question box.
C1_MissingResultsGivesNoData ==
    ResultsAbsent =>
        /\ raised = "none"
        /\ fetch_result # None
        /\ Len(fetch_result[1].rows) = 0
        /\ data = fetch_result
        /\ "no_data_message" \in shown
        /\ shown \cap {"chart", "table", "question_box", "exception"} = {}
        /\ fig = None

C1_Witness ==
    /\ ResultsAbsent
    /\ response[1].body.status = "ERROR"
    /\ "no_data_message" \in shown
    /\ "api_error" \in shown

\* C2: for every JSON answer of the quotes provider to a non-empty symbol
\* (also one whose "results" is empty or whose bars lack a field),
\* fetch_stocks_data does not raise and returns an empty table or a table
\* whose rows are the bars of the answer.
C2_FetchNeverRaises ==
    JsonAnswered =>
        /\ raised = "none"
        /\ fetch_result # None
        /\ \/ IsEmpty(fetch_result[1])
           \/ /\ ResultsPresent
              /\ Len(fetch_result[1].rows) = Len(response[1].body.results)
              /\ \A i \in 1..Len(fetch_result[1].rows) :
                   fetch_result[1].rows[i]["timestamp"] =
                     response[1].body.results[i]["t"] * 1000000

\* C3: for a well-formed non-empty "results" array the returned table has one
\* row per element, in the array's order, with Open/High/Low/Close/Volume
\* the element's o/h/l/c/v, the timestamp t milliseconds after the epoch
\* (in nanoseconds), and no other column.
C3_RowsFollowResults ==
    (ResultsPresent /\ WellFormed(response[1].body.results)) =>
        LET results == response[1].body.results
        IN  /\ raised = "none"
            /\ fetch_result # None
            /\ fetch_result[1].columns =
                 {"timestamp", "Open", "High", "Low", "Close", "Volume"}
            /\ Len(fetch_result[1].rows) = Len(results)
            /\ \A i \in 1..Len(results) :
                 LET row == fetch_result[1].rows[i]
                 IN  /\ DOMAIN row = fetch_result[1].columns
                     /\ row["Open"] = results[i]["o"]
                     /\ row["High"] = results[i]["h"]
                     /\ row["Low"] = results[i]["l"]
                     /\ row["Close"] = results[i]["c"]
                     /\ row["Volume"] = results[i]["v"]
                     /\ row["timestamp"] = results[i]["t"] * 1000000

C3_Witness ==
    /\ ResultsPresent
    /\ response[1].body.results = <<Bar2, Bar1>>
    /\ fetch_result # None
    /\ Len(fetch_result[1].rows) = 2
    /\ fetch_result[1].rows[1]["Volume"] = 2000
    /\ fetch_result[1].rows[2]["Volume"] = 1000

\* C4: a run sends exactly one GET, for the session symbol, when the Fetch
\* Data button was pressed and the session symbol is non-empty, and no GET
\* otherwise; whatever was fetched before and however the call ends.
C4_OneGetPerFetchPress ==
    gets = IF fetch_button /\ Len(symbol) > 0 THEN <<symbol>> ELSE <<>>

C4_Witness ==
    /\ fetch_button
    /\ gets = <<symbol>>
    /\ raised # "none"
    /\ data_symbol = Some(symbol)

\* C5: a question that is empty or only whitespace is not sent to the
\* text-generation provider when Get AI Insights is pressed; a warning is
\* shown instead.
Whitespace == {" ", "\t", "\n", "\r"}
IsBlank(question) == \A i \in 1..Len(question) : question[i] \in Whitespace
C5_BlankQuestionNotSent ==
    /\ (insights_button /\ "question_box" \in shown /\ IsBlank(prompt)) =>
          /\ ai_call = None
          /\ ai_outcome = None
          /\ "warning" \in shown
    /\ ai_call # None => ~IsBlank(ai_call[1].prompt)

\* C6: the chart is built only from a non-empty held table; with no held
\* table nothing is displayed, with an empty held table the no-data message
\* is displayed and no chart is built, with a non-empty held table the chart
\* is built from that table.
C6_ChartFollowsHeldTable ==
    /\ fig # None => HasRows(data) /\ fig = Some(create_stock_chart(data[1]))
    /\ data = None => shown = {} /\ fig = None
    /\ (data # None /\ IsEmpty(data[1])) =>
          "no_data_message" \in shown /\ fig = None
    /\ HasRows(data) => fig # None /\ "chart" \in shown

\* C7: get_ai_insights returns the error text when the provider raises, the
\* no-response message when the text is empty and the text otherwise, and
\* the run that calls it leaves the held table and symbol as they were.
C7_InsightsNeverRaise ==
    [][ai_call' # None =>
          /\ raised' = "none"
          /\ ai_outcome' # None
          /\ ai_response' # None
          /\ "ai_insights" \in shown'
          /\ ai_outcome'[1].error # "none" =>
                /\ Len(ai_response'[1]) = 2
                /\ ai_response'[1][2] = ai_outcome'[1].error
          /\ (ai_outcome'[1].error = "none" /\ ai_outcome'[1].text = <<>>) =>
                ai_response'[1] =
                  <<"The AI model didn't provide a response. Please try asking a different question.">>
          /\ (ai_outcome'[1].error = "none" /\ ai_outcome'[1].text # <<>>) =>
                ai_response'[1] = ai_outcome'[1].text
          /\ data' = data
          /\ symbol' = symbol]_vars

C7_Witness ==
    /\ ai_call # None
    /\ ai_outcome # None
    /\ ai_outcome[1].error # "none"
    /\ ai_response = Some(ErrorMessage(ai_outcome[1].error))

\* C8: after a fetch that the provider answered the held table is the result
\* of that fetch, an empty table when the fetch found no data; a run without
\* a fetch leaves the held table as it was.
NoDataFound(resp) ==
    /\ resp.error = "none"
    /\ "results" \in DOMAIN resp.body => resp.body.results = <<>>
C8_TableReplacedOnlyByFetch ==
    [][/\ JsonAnswered' =>
            /\ data' = fetch_result'
            /\ NoDataFound(response'[1]) =>
                  data' # None /\ IsEmpty(data'[1])
       /\ response' = None => data' = data]_vars

\* C9: the figure has two traces, a candlestick in row 1 from
\* Open/High/Low/Close and a bar in row 2 from Volume, both over the table's
\* timestamps, with a shared x-axis and no range slider.
C9_TwoAlignedTraces ==
    fig # None =>
        LET f == fig[1]
            df == data[1]
            stamps == [i \in 1..Len(df.rows) |-> df.rows[i]["timestamp"]]
        IN  /\ Len(f.traces) = 2
            /\ f.traces[1].row = 1
            /\ f.traces[1].trace.type = "candlestick"
            /\ f.traces[1].trace.x = stamps
            /\ f.traces[1].trace.open = [i \in 1..Len(df.rows) |-> df.rows[i]["Open"]]
            /\ f.traces[1].trace.high = [i \in 1..Len(df.rows) |-> df.rows[i]["High"]]
            /\ f.traces[1].trace.low = [i \in 1..Len(df.rows) |-> df.rows[i]["Low"]]
            /\ f.traces[1].trace.close = [i \in 1..Len(df.rows) |-> df.rows[i]["Close"]]
            /\ f.traces[2].row = 2
            /\ f.traces[2].trace.type = "bar"
            /\ f.traces[2].trace.x = stamps
            /\ f.traces[2].trace.y = [i \in 1..Len(df.rows) |-> df.rows[i]["Volume"]]
            /\ \A k \in 1..Len(f.traces) :
                 f.traces[k].trace.type = "bar" => f.traces[k].row # 1
            /\ f.shared_xaxes
            /\ ~f.xaxis_rangeslider_visible

C9_Witness ==
    /\ fig # None
    /\ Len(data[1].rows) = 2
    /\ fig[1].traces[2].trace.y = <<1000, 2000>>
    /\ fig[1].traces[1].trace.x = <<1000000, 2000000>>

\* C10: whenever get_ai_insights is called, the symbol passed is the symbol
\* the held table was fetched for, and the held table is non-empty.
C10_InsightsSymbolMatchesTable ==
    ai_call # None =>
        /\ data = Some(ai_call[1].df)
        /\ ~IsEmpty(ai_call[1].df)
        /\ data_symbol = Some(ai_call[1].symbol)

====
